---- MODULE Spec2Model ----
(***************************************************************************)
(* Position computation and cache publication pipeline.                    *)
(*                                                                         *)
(*   worker.py : main (startup gating, scheduling loop) and                *)
(*               fetch_and_calculate (one cycle: element-store query,      *)
(*               per-object computation, PostGIS batch, Redis publish).    *)
(*   main.py   : get_satellite_positions (Read API: cache first, then a    *)
(*               recomputation from the element store).                    *)
(*   ingest_tles.py : insertion of new element sets (environment).         *)
(*                                                                         *)
(* The worker and the API are separate processes sharing PostgreSQL and    *)
(* Redis; their steps interleave freely.  Every call to PostgreSQL or      *)
(* Redis may raise, which is a nondeterministic choice at that call.       *)
(***************************************************************************)
EXTENDS Integers, Sequences, FiniteSets, TLC

\* ------------------------------------------------------------------ bounds
NumSats == 2
MaxEpoch == 2
MaxRows == 2
MaxTicks == 3

\* ------------------------------------------------------- program constants
CACHE_TTL_SECONDS == 60
LIVE_TTL_SECONDS == 10
HTTP_OK == 200

CACHE_KEY == "satellite_positions_v2"
LIVE_CACHE_KEY == "live_satellite_positions"
Keys == {CACHE_KEY, LIVE_CACHE_KEY}

\* The clock advances in steps of half the refresh period.
TickSeconds == CACHE_TTL_SECONDS \div 2
MaxTime == MaxTicks * TickSeconds

\* Python None, and an absent Redis key or column value (every optional value is a record).
None == [none |-> TRUE]

\* The rows of table satellites (id, name, norad_cat_id); written by ingestion only.
Sats == 1..NumSats
NameOf(s) == <<"name", s>>
NoradOf(s) == <<"norad", s>>

\* A pair (line1, line2) of element lines: the epoch it encodes, and whether
\* the lines are well formed.
Lines == [epoch : 1..MaxEpoch, wellformed : BOOLEAN]

VARIABLES
    now,                 \* wall clock, seconds
    tles,                \* table tles: set of rows [satellite_id, epoch, lines]
    geopoint,            \* column satellites.geopoint, per satellite id
    cache,               \* Redis: key -> [val, exp]; val = None when absent
    worker_redis_client, \* worker.py redis_client is not None
    api_redis_client,    \* main.py redis_client is not None
    main_pc,             \* position of worker.main
    wake_at,             \* when the asyncio.sleep of main ends
    running,             \* invocations of fetch_and_calculate that have not returned
    cy,                  \* locals of the running fetch_and_calculate
    obs,                 \* what the running (or last) cycle did: bookkeeping for the properties
    api                  \* locals of the running get_satellite_positions

vars == <<now, tles, geopoint, cache, worker_redis_client, api_redis_client,
          main_pc, wake_at, running, cy, obs, api>>


\* ------------------------------------------------------------ pure helpers

\* json.dumps / json.loads: the text stored in Redis is not the object.
json_dumps(o) == [json |-> o]
json_loads(s) == s.json

\* Redis GET at time t: a key past its expiry is gone.
RedisGet(c, k, t) == IF c[k].val # None /\ t < c[k].exp THEN c[k].val ELSE None

\* Redis removes a key when its expiry is reached.
Absent == [val |-> None, exp |-> 0]
ExpireEntry(e, t) == IF e.val # None /\ t >= e.exp THEN Absent ELSE e
Expire(c, t) == [k \in DOMAIN c |-> ExpireEntry(c[k], t)]

\* Mutant: SET without EX, the key never expires.
RedisSetNoExpiry(c, k, v, ttl, t) == [c EXCEPT ![k] = [val |-> v, exp |-> t + 1000 * ttl]]

\* Redis SET key value EX ttl: one command replacing value and expiry together.
RedisSet(c, k, v, ttl, t) == [c EXCEPT ![k] = [val |-> v, exp |-> t + ttl]]

\* Skyfield subpoint / ECI vector of an element set at time t, kept symbolic.
Lat(l, t) == <<"lat", l.epoch, t>>
Lon(l, t) == <<"lon", l.epoch, t>>
Alt(l, t) == <<"alt", l.epoch, t>>
Eci(l, t) == <<"eci", l.epoch, t>>

\* An exception leaving a call.
Raised == [raised |-> TRUE]

\* Lines 40-57, the try body of calculate_satellite_position with ts.now() = t:
\* EarthSatellite(line1, line2) raises on malformed lines.
PositionOrRaise(l, t) ==
    IF l.wellformed
    THEN [eci_pos |-> Eci(l, t), geo_pos |-> <<Lat(l, t), Lon(l, t), Alt(l, t)>>]
    ELSE Raised

\* Mutant: the function without its try/except.
calculate_satellite_position_unguarded(l, t) == PositionOrRaise(l, t)

\* worker.calculate_satellite_position: the except clause of lines 59-61 prints
\* and returns None.
calculate_satellite_position(l, t) ==
    IF PositionOrRaise(l, t) = Raised THEN None ELSE PositionOrRaise(l, t)

\* The line printed by the except clause of calculate_satellite_position.
CalcErrorLog(l) == [msg |-> "Error in calculation", e |-> "malformed"]

\* Mutant: the per-satellite numbering without ORDER BY epoch DESC.
AnyRows(s) == {r \in tles : r.satellite_id = s}

\* ROW_NUMBER() OVER (PARTITION BY satellite_id ORDER BY epoch DESC) = 1:
\* the rows that can be numbered 1 (ties on epoch are ordered arbitrarily).
LatestRows(s) ==
    {r \in tles : r.satellite_id = s
                  /\ \A q \in tles : q.satellite_id = s => q.epoch <= r.epoch}

\* satellites s JOIN t ON s.id = t.satellite_id WHERE t.rn = 1.
JoinedSats == {s \in Sats : LatestRows(s) # {}}

\* The possible results of the query: one row per joined satellite, in any order.
QueryResults ==
    {q \in [1..Cardinality(JoinedSats) -> tles] :
        /\ \A i \in DOMAIN q : q[i] \in LatestRows(q[i].satellite_id)
        /\ \A i, j \in DOMAIN q : i # j => q[i].satellite_id # q[j].satellite_id}

\* --------------------------------------------------------------- the state

IdleCycle ==
    [pc |-> "idle", satellites |-> <<>>, i |-> 1,
     satellites_data |-> <<>>, postgis_update_args |-> <<>>]

\* Bookkeeping about the current (or last) call: when it started, what the snapshot
\* key held then, which statements it reached and with what outcome; and, kept from
\* call to call, when the snapshot key was last written.
NoObs ==
    [start |-> 0, key_before |-> Absent,
     fetch_failed |-> FALSE, dispatched |-> 0, succeeded |-> {}, escaped |-> FALSE,
     log |-> <<>>,
     geo_attempts |-> 0, geo_failed |-> FALSE, geo_writes |-> 0,
     cache_attempts |-> 0, cache_failed |-> FALSE, published |-> FALSE,
     returned |-> FALSE, returned_at |-> 0,
     n |-> 0, prev_outcome |-> "none", prev_returned_at |-> 0,
     ever_published |-> FALSE, last_publish |-> 0]

\* How a call ended: in the handler of line 172 after the query, the batch or the
\* cache write failed, or normally.
Outcome(o) ==
    IF o.n = 0 THEN "none"
    ELSE IF o.fetch_failed THEN "store_failed"
    ELSE IF o.cache_failed THEN "cache_failed"
    ELSE IF o.geo_failed /\ o.cache_attempts = 0 /\ o.succeeded # {} THEN "spatial_failed"
    ELSE "ok"

IdleApi ==
    [pc |-> "idle", resp |-> None, key_held |-> None,
     hit |-> FALSE, missed |-> FALSE, queried |-> FALSE, recomputed |-> FALSE,
     conn_open |-> FALSE, failed |-> FALSE]

\* --------------------------------------------------------------- the clock

\* worker.main, line 196: the sleep between a cycle's return and the next call.
SleepSeconds == CACHE_TTL_SECONDS

\* fetch_and_calculate, line 169: ex=CACHE_TTL_SECONDS.
SnapshotTtl == CACHE_TTL_SECONDS

\* main is at the head of "while True": first entry, or its sleep has elapsed.
AtLoopHead == main_pc = "loop" \/ (main_pc = "sleep" /\ now >= wake_at)

\* Time passes, except that a sleep that has elapsed ends before more time passes.
Tick ==
    /\ now + TickSeconds <= MaxTime
    /\ ~AtLoopHead
    /\ now' = now + TickSeconds
    /\ cache' = Expire(cache, now')
    /\ UNCHANGED <<tles, geopoint, worker_redis_client, api_redis_client,
                   main_pc, wake_at, running, cy, obs, api>>

\* ------------------------------------------------------------- ingestion

\* ingest_tles.main for one satellite: INSERT INTO tles (satellite_id, epoch, line1, line2)
\* with epoch = parse_tle_epoch(line1).
parse_tle_epoch(l) == l.epoch

Ingest(s, l) ==
    /\ Cardinality(tles) < MaxRows
    /\ tles' = tles \cup {[satellite_id |-> s, epoch |-> parse_tle_epoch(l), lines |-> l]}
    /\ tles' # tles
    /\ UNCHANGED <<now, geopoint, cache, worker_redis_client, api_redis_client,
                   main_pc, wake_at, running, cy, obs, api>>

\* ------------------------------------------------------- worker.main startup

\* main, lines 180-186: asyncpg.create_pool; on failure main returns.
CreatePool ==
    /\ main_pc = "create_pool"
    /\ \E ok \in BOOLEAN : main_pc' = IF ok THEN "check_redis" ELSE "exited"
    /\ UNCHANGED <<now, tles, geopoint, cache, worker_redis_client, api_redis_client,
                   wake_at, running, cy, obs, api>>

\* Mutant: main goes on to the loop without looking at redis_client.
CheckRedisSkipped ==
    /\ main_pc = "check_redis"
    /\ main_pc' = "loop"
    /\ UNCHANGED <<now, tles, geopoint, cache, worker_redis_client, api_redis_client,
                   wake_at, running, cy, obs, api>>

\* main, lines 188-190: without a Redis client main returns.
CheckRedis ==
    /\ main_pc = "check_redis"
    /\ main_pc' = IF worker_redis_client THEN "loop" ELSE "exited"
    /\ UNCHANGED <<now, tles, geopoint, cache, worker_redis_client, api_redis_client,
                   wake_at, running, cy, obs, api>>

\* ------------------------------------------------------ fetch_and_calculate

\* Mutant: the list starts from what the snapshot key holds.
MergedSatellitesData ==
    IF cache[CACHE_KEY].val # None THEN json_loads(cache[CACHE_KEY].val).satellites
    ELSE <<>>

\* Line 70: satellites_data = [] at the start of every call.
FreshSatellitesData == <<>>

\* Mutant: the call is started as a task and not awaited.
AfterCallNotAwaited == "sleep"

\* main, line 194: "await fetch_and_calculate(pool)" suspends main until the call returns.
AfterCall == "await"

\* main, line 194, and fetch_and_calculate, lines 68-70.
StartCycle ==
    /\ AtLoopHead
    /\ main_pc' = AfterCall
    /\ running' = running + 1
    /\ cy' = [IdleCycle EXCEPT !.pc = "fetch", !.satellites_data = FreshSatellitesData]
    /\ obs' = [NoObs EXCEPT !.start = now, !.key_before = cache[CACHE_KEY],
                            !.n = obs.n + 1, !.prev_outcome = Outcome(obs),
                            !.prev_returned_at = obs.returned_at,
                            !.ever_published = obs.ever_published,
                            !.last_publish = obs.last_publish]
    /\ UNCHANGED <<now, tles, geopoint, cache, worker_redis_client, api_redis_client,
                   wake_at, api>>

\* Mutant: the failed statement is tried again.
RaiseRetries(c) == c

\* Where control goes when the statement at pc raises inside the outer try
\* (lines 72-174): to the handler of line 172.
Raise(c) == [c EXCEPT !.pc = "except"]

\* Lines 73-93: pool.acquire and conn.fetch; then line 95-100 build the task list
\* (asyncio.to_thread only creates the coroutines; none runs before it is awaited).
Fetch ==
    /\ cy.pc = "fetch"
    /\ \/ /\ cy' = Raise(cy)
          /\ obs' = [obs EXCEPT !.fetch_failed = TRUE]
       \/ /\ \E q \in QueryResults :
                cy' = [cy EXCEPT !.satellites = q, !.i = 1,
                                 !.pc = IF Len(q) = 0 THEN "postgis" ELSE "calc"]
          /\ obs' = obs
    /\ UNCHANGED <<now, tles, geopoint, cache, worker_redis_client, api_redis_client,
                   main_pc, wake_at, running, api>>

\* Lines 119-125: the entry appended to satellites_data.
CacheEntry(sat, pos) ==
    [name |-> NameOf(sat.satellite_id), norad_id |-> NoradOf(sat.satellite_id),
     latitude |-> pos.geo_pos[1], longitude |-> pos.geo_pos[2], altitude |-> pos.geo_pos[3]]

\* Mutant: the tuple in the order (lat, lon, id).
PostgisArgsLatLon(sat, pos) == <<pos.geo_pos[1], pos.geo_pos[2], sat.satellite_id>>

\* Lines 137-139: (lon, lat, id).
PostgisArgs(sat, pos) == <<pos.geo_pos[2], pos.geo_pos[1], sat.satellite_id>>

\* Line 168: the payload.
SnapshotPayload(data) == json_dumps([satellites |-> data])

\* Mutant: the snapshot key is rewritten after every object.
CacheWrittenPerObject(c, data, t) ==
    IF data # <<>> THEN RedisSet(c, CACHE_KEY, SnapshotPayload(data), CACHE_TTL_SECONDS, t)
    ELSE c

\* Lines 111-139: the loop body does not touch Redis.
CacheAfterCalc(c, data, t) == c

\* Mutant: the loop is left after the first task awaited.
AfterFirstResult(i, n) == "postgis"

\* Line 111: "for sat, task in calculation_tasks" goes through the whole list
\* before the statements after the loop run.
AfterIteration(i, n) == IF i = n THEN "postgis" ELSE "calc"

\* Lines 111-139, one iteration: await the task of candidate i (the computation runs
\* now; an exception it raised would be raised by the await), and on a result
\* append to both lists.
Calc ==
    /\ cy.pc = "calc"
    /\ cy.i <= Len(cy.satellites)
    /\ LET sat == cy.satellites[cy.i]
           pos_data == calculate_satellite_position(sat.lines, now)
       IN IF pos_data = Raised
          THEN /\ cy' = Raise(cy)
               /\ obs' = [obs EXCEPT !.dispatched = @ + 1, !.escaped = TRUE]
               /\ UNCHANGED cache
          ELSE /\ cy' = [cy EXCEPT
                           !.i = cy.i + 1,
                           !.pc = AfterIteration(cy.i, Len(cy.satellites)),
                           !.satellites_data =
                               IF pos_data # None
                               THEN Append(@, CacheEntry(sat, pos_data)) ELSE @,
                           !.postgis_update_args =
                               IF pos_data # None
                               THEN Append(@, PostgisArgs(sat, pos_data)) ELSE @]
               /\ obs' = [obs EXCEPT
                            !.dispatched = @ + 1,
                            !.succeeded =
                                IF pos_data # None THEN @ \cup {sat.satellite_id} ELSE @,
                            !.log =
                                IF pos_data = None
                                THEN Append(@, CalcErrorLog(sat.lines)) ELSE @]
               /\ cache' = CacheAfterCalc(cache, cy'.satellites_data, now)
    /\ UNCHANGED <<now, tles, geopoint, worker_redis_client, api_redis_client,
                   main_pc, wake_at, running, api>>

\* Mutant: the arguments of ST_MakePoint exchanged.
MakePointSwapped(x, y) == [x |-> y, y |-> x]

\* ST_SetSRID(ST_MakePoint($1, $2), 4326).
MakePoint(x, y) == [x |-> x, y |-> y]

\* UPDATE satellites SET geopoint = ... WHERE id = $3, for every argument tuple in order.
RECURSIVE ExecuteMany(_, _)
ExecuteMany(g, args) ==
    IF args = <<>> THEN g
    ELSE ExecuteMany([g EXCEPT ![Head(args)[3]] = MakePoint(Head(args)[1], Head(args)[2])],
                     Tail(args))

\* Lines 142-155: the PostGIS batch.  pool.acquire (line 143) is outside the inner
\* try; only conn.executemany is inside it.
Postgis ==
    /\ cy.pc = "postgis"
    /\ IF cy.postgis_update_args = <<>>
       THEN /\ cy' = [cy EXCEPT !.pc = "publish"]
            /\ UNCHANGED <<geopoint, obs>>
       ELSE \/ /\ cy' = Raise(cy)                      \* pool.acquire raises
               /\ obs' = [obs EXCEPT !.geo_attempts = @ + 1, !.geo_failed = TRUE]
               /\ UNCHANGED geopoint
            \/ /\ cy' = [cy EXCEPT !.pc = "publish"]   \* executemany raises: printed
               /\ obs' = [obs EXCEPT
                            !.geo_attempts = @ + 1, !.geo_failed = TRUE,
                            !.log = Append(@, [msg |-> "WORKER Error during PostGIS update"])]
               /\ UNCHANGED geopoint
            \/ /\ cy' = [cy EXCEPT !.pc = "publish"]
               /\ geopoint' = ExecuteMany(geopoint, cy.postgis_update_args)
               /\ obs' = [obs EXCEPT !.geo_attempts = @ + 1, !.geo_writes = @ + 1]
    /\ UNCHANGED <<now, tles, cache, worker_redis_client, api_redis_client,
                   main_pc, wake_at, running, api>>

\* Mutant: the write is made whatever the list holds.
WritesAnyList(data) == TRUE

\* Line 167: "and satellites_data", an empty list is falsy.
HasResults(data) == data # <<>>

\* Lines 167-170: the Redis write, attempted when there is a client and a result.
Publish ==
    /\ cy.pc = "publish"
    /\ IF worker_redis_client /\ HasResults(cy.satellites_data)
       THEN \/ /\ cy' = Raise(cy)                      \* redis_client.set raises
               /\ obs' = [obs EXCEPT !.cache_attempts = @ + 1, !.cache_failed = TRUE]
               /\ UNCHANGED cache
            \/ /\ cy' = [cy EXCEPT !.pc = "return"]
               /\ cache' = RedisSet(cache, CACHE_KEY, SnapshotPayload(cy.satellites_data),
                                    SnapshotTtl, now)
               /\ obs' = [obs EXCEPT !.cache_attempts = @ + 1, !.published = TRUE,
                                      !.ever_published = TRUE, !.last_publish = now]
       ELSE /\ cy' = [cy EXCEPT !.pc = "return"]
            /\ UNCHANGED <<cache, obs>>
    /\ UNCHANGED <<now, tles, geopoint, worker_redis_client, api_redis_client,
                   main_pc, wake_at, running, api>>

\* Mutant: a handler that lets the error through.
OuterExceptMisses == FALSE

\* Line 172: "except (Exception, asyncpg.PostgresError)" handles every error raised
\* in the try body.
OuterExceptCatches == TRUE

\* Lines 172-174: the handler prints and the function returns; an error it does not
\* handle leaves fetch_and_calculate and main, which has no handler of its own.
Except ==
    /\ cy.pc = "except"
    /\ IF OuterExceptCatches
       THEN /\ cy' = [cy EXCEPT !.pc = "return"]
            /\ obs' = [obs EXCEPT !.log = Append(@, [msg |-> "WORKER Error in main cycle"])]
            /\ UNCHANGED <<main_pc, running>>
       ELSE /\ cy' = IdleCycle
            /\ main_pc' = "crashed"
            /\ running' = running - 1
            /\ UNCHANGED obs
    /\ UNCHANGED <<now, tles, geopoint, cache, worker_redis_client, api_redis_client,
                   wake_at, api>>

\* fetch_and_calculate returns; main, lines 195-196, starts its sleep.
Return ==
    /\ cy.pc = "return"
    /\ cy' = IdleCycle
    /\ running' = running - 1
    /\ main_pc' = IF main_pc = "await" THEN "sleep" ELSE main_pc
    /\ wake_at' = now + SleepSeconds
    /\ obs' = [obs EXCEPT !.returned = TRUE, !.returned_at = now]
    /\ UNCHANGED <<now, tles, geopoint, cache, worker_redis_client, api_redis_client,
                   api>>


\* ------------------------------------------- main.get_satellite_positions

\* The route returns a dict on every path, and FastAPI answers a returned dict
\* with its default status.
Respond(body) == [status |-> HTTP_OK, body |-> body]

\* Lines 130-132: the handler of the whole body.
ErrorBody(e) == [error |-> e]

ApiFail(a, e) == [a EXCEPT !.pc = "done", !.failed = TRUE, !.resp = Respond(ErrorBody(e))]

\* Line 78: the cache is consulted only when the module has a client.
ApiReadsCache == api_redis_client

\* Mutant: a hit is re-wrapped before it is returned.
HitBodyWrapped(cached) == [satellites |-> json_loads(cached).satellites, source |-> "cache"]

\* Line 82: what a hit returns.
HitBody(cached) == json_loads(cached)

\* A request arrives; lines 78-82: with a client, GET the snapshot key and return
\* it when it is there.
ApiCache ==
    /\ api.pc = "idle"
    /\ LET held == RedisGet(cache, CACHE_KEY, now)
           a == [IdleApi EXCEPT !.key_held = held]
       IN IF ApiReadsCache
          THEN \/ api' = ApiFail(a, "redis")              \* redis_client.get raises
               \/ api' = IF held # None
                         THEN [a EXCEPT !.hit = TRUE, !.pc = "done",
                                        !.resp = Respond(HitBody(held))]
                         ELSE [a EXCEPT !.pc = "degraded", !.missed = TRUE]
          ELSE api' = [a EXCEPT !.pc = "degraded", !.missed = TRUE]
    /\ UNCHANGED <<now, tles, geopoint, cache, worker_redis_client, api_redis_client,
                   main_pc, wake_at, running, cy, obs>>

\* main.get_current_position with datetime.utcnow() = t: None when twoline2rv raises
\* or sgp4 reports an error, else the spherical lat/lon/alt of the TEME vector.
get_current_position(l, t) ==
    IF l.wellformed
    THEN [lat |-> <<"lat_sgp4", l.epoch, t>>, lon |-> <<"lon_sgp4", l.epoch, t>>,
          alt_km |-> <<"alt_sgp4", l.epoch, t>>]
    ELSE None

\* Lines 106-120: the entry appended to satellites.
ApiEntry(row, pos, t) ==
    [name |-> NameOf(row.satellite_id), norad_id |-> NoradOf(row.satellite_id),
     lat |-> pos.lat, lon |-> pos.lon, alt_km |-> pos.alt_km,
     samples |-> <<[t |-> t, lat |-> pos.lat, lon |-> pos.lon, alt_km |-> pos.alt_km]>>]

\* Lines 102-120: the loop over the rows.
RECURSIVE ApiSatellites(_, _)
ApiSatellites(rows, t) ==
    IF rows = <<>> THEN <<>>
    ELSE LET pos == get_current_position(Head(rows).lines, t)
         IN (IF pos # None THEN <<ApiEntry(Head(rows), pos, t)>> ELSE <<>>)
            \o ApiSatellites(Tail(rows), t)

\* Mutant: the recomputed result is stored under the worker's key.
LiveSetUnderSnapshotKey(c, result, t) ==
    IF api_redis_client
    THEN RedisSet(c, CACHE_KEY, json_dumps(result), LIVE_TTL_SECONDS, t)
    ELSE c

\* Line 126: the brief cache of the recomputed result, when there is a client.
LiveSet(c, result, t) ==
    IF api_redis_client
    THEN RedisSet(c, LIVE_CACHE_KEY, json_dumps(result), LIVE_TTL_SECONDS, t)
    ELSE c

\* Lines 85-128: connect, query, close, the computation over the rows, the brief
\* cache of the result and the return.  Between the query and the write nothing
\* shared is read, and no code reads the key written, so the steps are taken as
\* one.  An error between connect and close leaves for the handler of line 130
\* without closing.
ApiDegraded ==
    /\ api.pc = "degraded"
    /\ \/ /\ api' = ApiFail([api EXCEPT !.queried = TRUE], "connect")  \* connect raises
          /\ UNCHANGED cache
       \/ /\ api' = ApiFail([api EXCEPT !.queried = TRUE, !.conn_open = TRUE], "query")
          /\ UNCHANGED cache
       \/ /\ api_redis_client                              \* redis_client.set raises
          /\ api' = ApiFail([api EXCEPT !.queried = TRUE], "redis")
          /\ UNCHANGED cache
       \/ \E q \in QueryResults :
             LET result == [satellites |-> ApiSatellites(q, now)]
             IN /\ cache' = LiveSet(cache, result, now)
                /\ api' = [api EXCEPT !.pc = "done", !.queried = TRUE,
                                      !.recomputed = TRUE, !.resp = Respond(result)]
    /\ UNCHANGED <<now, tles, geopoint, worker_redis_client, api_redis_client,
                   main_pc, wake_at, running, cy, obs>>

\* The response has been sent.
ApiDone ==
    /\ api.pc = "done"
    /\ api' = IdleApi
    /\ UNCHANGED <<now, tles, geopoint, cache, worker_redis_client, api_redis_client,
                   main_pc, wake_at, running, cy, obs>>

\* ------------------------------------------------------- the specification

InitTles ==
    {t \in SUBSET [satellite_id : Sats, epoch : {1}, lines : Lines] :
        /\ \A r \in t : r.lines.epoch = r.epoch
        /\ \A r, q \in t : r.satellite_id = q.satellite_id => r = q}

\* What an earlier run of the worker can have left under the snapshot key: nothing,
\* or a snapshot written TickSeconds before this run starts.
LeftoverEntry ==
    CacheEntry([satellite_id |-> 1], PositionOrRaise([epoch |-> 1, wellformed |-> TRUE],
                                                     0 - TickSeconds))
LeftoverSnapshot ==
    [val |-> SnapshotPayload(<<LeftoverEntry>>), exp |-> SnapshotTtl - TickSeconds]

Init ==
    /\ now = 0
    /\ tles \in InitTles
    /\ geopoint = [s \in Sats |-> None]
    /\ \E e \in {Absent, LeftoverSnapshot} :
          cache = [k \in Keys |-> IF k = CACHE_KEY THEN e ELSE Absent]
    /\ worker_redis_client \in BOOLEAN
    /\ api_redis_client \in BOOLEAN
    /\ main_pc = "create_pool"
    /\ wake_at = 0
    /\ running = 0
    /\ cy = IdleCycle
    /\ obs = [NoObs EXCEPT !.key_before = cache[CACHE_KEY],
                           !.ever_published = cache[CACHE_KEY] # Absent,
                           !.last_publish = IF cache[CACHE_KEY] # Absent
                                            THEN cache[CACHE_KEY].exp - SnapshotTtl ELSE 0]
    /\ api = IdleApi

IngestAny == \E s \in Sats, l \in Lines : Ingest(s, l)

\* A response that has been produced is sent before anything else happens: nothing
\* another process does can change it any more.
Sending == api.pc = "done"

Next ==
    \/ ApiDone
    \/ ~Sending /\ Tick
    \/ ~Sending /\ IngestAny
    \/ ~Sending /\ CreatePool
    \/ ~Sending /\ CheckRedis
    \/ ~Sending /\ StartCycle
    \/ ~Sending /\ Fetch
    \/ ~Sending /\ Calc
    \/ ~Sending /\ Postgis
    \/ ~Sending /\ Publish
    \/ ~Sending /\ Except
    \/ ~Sending /\ Return
    \/ ApiCache
    \/ ApiDegraded

Spec == Init /\ [][Next]_vars

\* -------------------------------------------------------------- properties

\* The period T of the scheduling loop.
T == SleepSeconds

\* The lines printed for a failed computation.
CalcErrors == SelectSeq(obs.log, LAMBDA e : e.msg = "Error in calculation")

\* The objects of a snapshot payload.
PayloadIds(data) == {data[j].norad_id : j \in DOMAIN data}

\* C1: cycles never overlap: at most one call of fetch_and_calculate is running at
\* any moment, main is suspended in the await while it runs, and so a call starts
\* only after the previous one has returned, however that one ended.
C1_CyclesNeverOverlap ==
    /\ running \in {0, 1}
    /\ running = 1 <=> cy.pc # "idle"
    /\ running = 1 => main_pc = "await"

\* A second cycle is running after a first one that ended in the error handler.
C1_Witness == running = 1 /\ obs.n = 2 /\ obs.prev_outcome = "store_failed"

\* C2: when the element-store query fails, nothing is computed, neither the batch
\* nor the cache write is attempted, the snapshot key holds what it held when the
\* cycle began (value and expiry), and main sleeps one period and starts the next
\* cycle when the sleep ends.
C2_StoreFailureAbortsCycle ==
    /\ obs.fetch_failed =>
          /\ obs.dispatched = 0
          /\ obs.geo_attempts = 0
          /\ obs.cache_attempts = 0
          /\ cache[CACHE_KEY] = ExpireEntry(obs.key_before, now)
          /\ main_pc \in {"await", "sleep"}
          /\ obs.returned => main_pc = "sleep" /\ wake_at = obs.returned_at + T
    /\ (running = 1 /\ obs.prev_outcome = "store_failed") =>
          obs.start = obs.prev_returned_at + T

\* The query failed while the key held a snapshot, which is still there after the return.
C2_Witness ==
    /\ obs.fetch_failed /\ obs.returned /\ main_pc = "sleep"
    /\ obs.key_before # Absent /\ cache[CACHE_KEY] = obs.key_before

\* C3: the snapshot a cycle writes holds exactly the objects whose computation
\* succeeded in that cycle, each once (N candidates, f failures: N - f objects), and
\* every entry was computed in that cycle.
C3_SnapshotIsThisCycle ==
    (cy.pc = "return" /\ obs.published /\ cache[CACHE_KEY] # Absent) =>
        LET data == json_loads(cache[CACHE_KEY].val).satellites
        IN /\ Len(data) = Len(cy.satellites) - Len(CalcErrors)
           /\ PayloadIds(data) = {NoradOf(s) : s \in obs.succeeded}
           /\ Len(data) = Cardinality(obs.succeeded)
           /\ \A j \in DOMAIN data : data[j].latitude[3] >= obs.start

\* Object 1 was in the snapshot the key held before, failed in this cycle, and the
\* cycle published the other object.
C3_Witness ==
    /\ cy.pc = "return" /\ obs.published /\ cache[CACHE_KEY] # Absent
    /\ obs.key_before = LeftoverSnapshot
    /\ Len(cy.satellites) = 2
    /\ 1 \notin obs.succeeded
    /\ Len(json_loads(cache[CACHE_KEY].val).satellites) = 1

\* C4: a solver failure never leaves the per-object computation, and once the loop
\* is over every candidate has been computed and every well-formed one is in the
\* cycle's results, wherever the malformed ones are in the list.
C4_SolverFailureContained ==
    /\ ~obs.escaped
    /\ (cy.pc \in {"postgis", "publish", "except", "return"} /\ ~obs.fetch_failed) =>
          /\ obs.dispatched = Len(cy.satellites)
          /\ \A i \in DOMAIN cy.satellites :
                cy.satellites[i].lines.wellformed =>
                   \E j \in DOMAIN cy.satellites_data :
                      cy.satellites_data[j].norad_id = NoradOf(cy.satellites[i].satellite_id)

\* The first candidate failed and the one after it is in the results.
C4_Witness ==
    /\ cy.pc = "publish"
    /\ Len(cy.satellites) = 2
    /\ ~cy.satellites[1].lines.wellformed
    /\ Len(cy.satellites_data) = 1

\* C5: a cycle whose query succeeded ends with every candidate either in the list of
\* results or in a list of (objectId, error) failures: successes + failures = N.
C5_SuccessesPlusFailures ==
    (cy.pc = "return" /\ ~obs.fetch_failed /\ ~obs.geo_failed /\ ~obs.cache_failed) =>
        Len(cy.satellites_data)
           + Len(SelectSeq(obs.log, LAMBDA e : "objectId" \in DOMAIN e /\ "error" \in DOMAIN e))
           = Len(cy.satellites)

\* C6: a cycle with a result whose spatial stage failed, in acquiring the
\* connection or in executing the batch, still attempts its cache write.
C6_SpatialFailureNonFatal ==
    (cy.pc = "return" /\ obs.geo_failed /\ cy.satellites_data # <<>>) =>
        obs.cache_attempts = 1

\* C7: when the cache write fails, the key holds what it held when the cycle began,
\* the write was attempted once, the error stays in the cycle, and main sleeps one
\* period and starts the next cycle.
C7_CacheFailureKeepsPrevious ==
    /\ obs.cache_failed =>
          /\ cache[CACHE_KEY] = ExpireEntry(obs.key_before, now)
          /\ obs.cache_attempts = 1
          /\ ~obs.published
          /\ main_pc \in {"await", "sleep"}
          /\ obs.returned => main_pc = "sleep" /\ wake_at = obs.returned_at + T
    /\ (running = 1 /\ obs.prev_outcome = "cache_failed") =>
          obs.start = obs.prev_returned_at + T

\* The write failed while the key held a snapshot, which is still there after the return.
C7_Witness ==
    /\ obs.cache_failed /\ obs.returned /\ main_pc = "sleep"
    /\ obs.key_before # Absent /\ cache[CACHE_KEY] = obs.key_before

\* C8: a request that hits the cache returns a whole snapshot: the one the key held
\* when the current (or last) cycle began, or the one that cycle published, which
\* holds every object the cycle computed successfully.
C8_ReadersSeeWholeSnapshots ==
    (api.pc = "done" /\ api.hit) =>
        \/ api.key_held = obs.key_before.val
        \/ /\ obs.published
           /\ PayloadIds(json_loads(api.key_held).satellites)
                 = {NoradOf(s) : s \in obs.succeeded}
           /\ Len(json_loads(api.key_held).satellites) = Cardinality(obs.succeeded)

\* A request hits while a cycle has computed one of its two objects.
C8_Witness ==
    /\ api.pc = "done" /\ api.hit
    /\ cy.pc = "calc" /\ Len(cy.satellites) = 2 /\ cy.i = 2 /\ Len(cy.satellites_data) = 1

\* C9 as stated: whenever the snapshot key holds a value at request time, the
\* response is that payload and the store is not queried.
C9_KeyHeldImpliesServed ==
    (api.pc = "done" /\ api.key_held # None) =>
        /\ api.resp.body = json_loads(api.key_held)
        /\ ~api.queried

\* C9 amended: whenever the API has a cache client and its read of the snapshot key
\* returns a value, the response is exactly that payload, with no store query and
\* no recomputation.
C9_CacheFirst ==
    /\ (api.pc = "done" /\ api_redis_client /\ api.key_held # None /\ ~api.failed) => api.hit
    /\ (api.pc = "done" /\ api.hit) =>
          /\ api.key_held = cache[CACHE_KEY].val
          /\ api.resp.body = json_loads(api.key_held)
          /\ json_dumps(api.resp.body) = cache[CACHE_KEY].val
          /\ ~api.queried /\ ~api.recomputed

\* A request served from the snapshot a cycle has published.
C9_Witness == api.pc = "done" /\ api.hit /\ obs.published

\* C10: a request that misses the cache and whose recomputation fails is answered
\* 503 with a body {status: "unavailable", reason}.
C10_UnavailableIs503 ==
    (api.pc = "done" /\ api.missed /\ api.failed) =>
        /\ api.resp.status = 503
        /\ DOMAIN api.resp.body = {"status", "reason"}
        /\ api.resp.body.status = "unavailable"

\* C11: a request that misses the cache and recomputes is never answered 200 with
\* an empty object list.
C11_NoEmptySuccess ==
    (api.pc = "done" /\ api.recomputed /\ api.resp.status = HTTP_OK) =>
        api.resp.body.satellites # <<>>

\* The margin by which the snapshot's TTL exceeds the period.
Margin == SnapshotTtl - T

\* C12: a cache read made T + margin or more after the last write of the snapshot
\* key, with no write since, observes a miss and the request takes the recomputation
\* path; it never gets the old snapshot.
C12_TtlExpiry ==
    [][(/\ api.pc = "idle" /\ api'.pc # "idle"
        /\ api_redis_client /\ ~api'.failed
        /\ obs.ever_published /\ now >= obs.last_publish + T + Margin)
       => (api'.key_held = None /\ api'.missed /\ ~api'.hit /\ api'.pc = "degraded")]_vars

\* A request misses at the instant the snapshot published by the last cycle expires.
C12_Witness ==
    /\ api.pc = "degraded" /\ api.missed /\ api_redis_client
    /\ obs.published /\ obs.returned /\ running = 0
    /\ now = obs.last_publish + T + Margin

\* C13: the snapshot is written with TTL = T + margin and margin >= T/2.
C13_TtlExceedsPeriod ==
    (obs.published /\ cache[CACHE_KEY] # Absent) =>
        2 * (cache[CACHE_KEY].exp - obs.last_publish - T) >= T

\* C14: cycle starts are spaced at a fixed rate: after a cycle that started at s
\* and took d, main is ready for the next call at s + T when d <= T, and at once
\* (s + d) when d > T.
C14_FixedRateStarts ==
    (main_pc = "sleep" /\ obs.returned) =>
        wake_at = IF obs.returned_at - obs.start <= T
                  THEN obs.start + T
                  ELSE obs.returned_at

\* ------------------------------------------------- the worker under fairness

\* An awaited call that never returns: conn.fetch (line 75), pool.acquire and
\* conn.executemany (lines 143-152) and redis_client.set (line 169) are given no
\* timeout, and nothing cancels the call.
Hang ==
    /\ \/ cy.pc = "fetch"
       \/ cy.pc = "postgis" /\ cy.postgis_update_args # <<>>
       \/ cy.pc = "publish" /\ worker_redis_client /\ cy.satellites_data # <<>>
    /\ cy' = [cy EXCEPT !.pc = "blocked"]
    /\ UNCHANGED <<now, tles, geopoint, cache, worker_redis_client, api_redis_client,
                   main_pc, wake_at, running, obs, api>>

\* The worker process alone with the clock.
WorkerNext ==
    \/ Tick
    \/ CreatePool
    \/ CheckRedis
    \/ StartCycle
    \/ Fetch
    \/ Calc
    \/ Postgis
    \/ Publish
    \/ Except
    \/ Return
    \/ Hang

\* The event loop runs the one task it has whenever the task can take a step, a
\* call that returns or raises does so, and time passes.
WorkerFairness ==
    /\ WF_vars(Tick)
    /\ WF_vars(CreatePool)
    /\ WF_vars(CheckRedis)
    /\ WF_vars(StartCycle)
    /\ WF_vars(Fetch)
    /\ WF_vars(Calc)
    /\ WF_vars(Postgis)
    /\ WF_vars(Publish)
    /\ WF_vars(Except)
    /\ WF_vars(Return)

LiveSpec == Init /\ [][WorkerNext]_vars /\ WorkerFairness

\* The positions of main inside "while True".
LoopStates == {"loop", "await", "sleep"}

\* C15: once main has entered its loop it never leaves it, whatever the outcome of
\* a cycle, and after every cycle that returns another cycle starts (as far as the
\* clock of the model reaches).
C15_LoopsForever ==
    /\ [][(main_pc \in LoopStates => main_pc' \in LoopStates)]_vars
    /\ [](obs.cache_failed \/ obs.fetch_failed \/ obs.geo_failed => main_pc \in LoopStates)
    /\ (main_pc = "sleep" /\ obs.returned /\ wake_at <= MaxTime) ~> (running = 1)

\* A second cycle is running after one that ended in the handler because the
\* connection for the batch could not be acquired.
C15_Witness == running = 1 /\ obs.n = 2 /\ obs.prev_outcome = "spatial_failed"

\* C20: a store query, batch write or cache write that never returns is given up
\* after a bound, so the cycle it belongs to still ends and main goes on to the
\* next cycle.
C20_CallsAreBounded == (cy.pc = "blocked") ~> (running = 0 /\ main_pc = "sleep")

\* C16: the rows a cycle's query returns, and the objects a recomputation answers
\* with, are the tracked objects that have an element set, each once and with an
\* element set of the greatest epoch the table holds for it; an object without an
\* element set is just not there.
C16_LatestByEpoch ==
    [][LET WithSets == {s \in Sats : \E r \in tles : r.satellite_id = s}
           MaxEpochOf(s) == CHOOSE e \in 1..MaxEpoch :
                               /\ \E r \in tles : r.satellite_id = s /\ r.epoch = e
                               /\ \A r \in tles : r.satellite_id = s => r.epoch <= e
           q == cy'.satellites
           body == api'.resp.body.satellites
       IN /\ (cy.pc = "fetch" /\ cy'.pc \in {"calc", "postgis"}) =>
                /\ {q[i].satellite_id : i \in DOMAIN q} = WithSets
                /\ Len(q) = Cardinality(WithSets)
                /\ \A i \in DOMAIN q :
                      q[i] \in tles /\ q[i].epoch = MaxEpochOf(q[i].satellite_id)
          /\ (api.pc = "degraded" /\ api'.recomputed) =>
                /\ {body[j].norad_id : j \in DOMAIN body} \subseteq {NoradOf(s) : s \in WithSets}
                /\ \A j, k \in DOMAIN body : body[j].norad_id = body[k].norad_id => j = k
                /\ \A j \in DOMAIN body : body[j].lat[2] = MaxEpochOf(body[j].norad_id[2])
                /\ \A s \in WithSets :
                      (\A r \in tles : r.satellite_id = s /\ r.epoch = MaxEpochOf(s)
                                          => r.lines.wellformed)
                      => \E j \in DOMAIN body : body[j].norad_id = NoradOf(s)
      ]_vars

\* A cycle got one candidate, with the newer of the object's two element sets,
\* while the other object has none.
C16_Witness ==
    /\ cy.pc = "calc" /\ Len(cy.satellites) = 1
    /\ cy.satellites[1].epoch = 2
    /\ \E r \in tles : r.satellite_id = cy.satellites[1].satellite_id /\ r.epoch = 1
    /\ JoinedSats # Sats

\* C17: the payload a cycle writes under the snapshot key and the payload a
\* recomputation returns both carry a generatedAt timestamp.
C17_GeneratedAt ==
    /\ (obs.published /\ cache[CACHE_KEY] # Absent) =>
          "generatedAt" \in DOMAIN json_loads(cache[CACHE_KEY].val)
    /\ (api.pc = "done" /\ api.recomputed) =>
          "generatedAt" \in DOMAIN api.resp.body

\* C18: the solver is a function of its explicit inputs: called again with the
\* element set of an entry of the published snapshot, it returns that entry's
\* position, whenever the call is made.
C18_SolverDeterministic ==
    (obs.published /\ cache[CACHE_KEY] # Absent) =>
        LET data == json_loads(cache[CACHE_KEY].val).satellites
        IN \A j \in DOMAIN data : \A l \in Lines :
              (l.wellformed /\ l.epoch = data[j].latitude[2]) =>
                 calculate_satellite_position(l, now).geo_pos
                    = <<data[j].latitude, data[j].longitude, data[j].altitude>>

\* C19: a recomputed response has the structure of a cache hit: the same top-level
\* keys and the same field names in every object as the payload under the snapshot key.
C19_SameShapeOnBothPaths ==
    (api.pc = "done" /\ api.recomputed /\ cache[CACHE_KEY] # Absent) =>
        LET hit == HitBody(cache[CACHE_KEY].val)
            body == api.resp.body
        IN /\ DOMAIN body = DOMAIN hit
           /\ \A j \in DOMAIN body.satellites : \A k \in DOMAIN hit.satellites :
                 DOMAIN body.satellites[j] = DOMAIN hit.satellites[k]

\* C21: neither sink starts before every candidate of the cycle has been computed
\* or has failed: while the loop runs the batch and the cache write have not been
\* attempted and the snapshot key is as the cycle found it, and once a sink has
\* been attempted every candidate is accounted for in the lists the sinks use.
C21_JoinBarrier ==
    /\ cy.pc = "calc" =>
          /\ obs.geo_attempts = 0 /\ obs.cache_attempts = 0
          /\ cache[CACHE_KEY] = ExpireEntry(obs.key_before, now)
    /\ (running = 1 /\ (cy.pc \in {"postgis", "publish"}
                        \/ obs.geo_attempts > 0 \/ obs.cache_attempts > 0)) =>
          /\ obs.dispatched = Len(cy.satellites)
          /\ Len(cy.satellites_data) + Len(CalcErrors) = Len(cy.satellites)
          /\ Len(cy.postgis_update_args) = Len(cy.satellites_data)
    /\ (cy.pc = "return" /\ obs.published /\ cache[CACHE_KEY] # Absent) =>
          cache[CACHE_KEY].val = SnapshotPayload(cy.satellites_data)

\* Both candidates have been computed and the batch has been written; the cache
\* write comes next.
C21_Witness ==
    /\ cy.pc = "publish" /\ Len(cy.satellites) = 2
    /\ obs.dispatched = 2 /\ obs.geo_writes = 1 /\ Len(cy.satellites_data) = 2

\* Lines 96-112: asyncio.to_thread(...) only builds a coroutine; the thread of
\* candidate i is started by "await task" and the loop does not go on before it
\* has ended.  The computations running while the cycle is at position c:
InFlight(c) == IF c.pc = "calc" /\ c.i <= Len(c.satellites) THEN 1 ELSE 0

\* C22: the computations of a cycle run in parallel: while two or more candidates
\* are still to be computed, two or more computations are in flight.
C22_ParallelComputation ==
    (cy.pc = "calc" /\ Len(cy.satellites) - cy.i + 1 >= 2) => InFlight(cy) >= 2

\* C23 as stated: in each cycle the point of every object with a successful result
\* is set to that cycle's (longitude, latitude).
C23_EverySuccessIsStored ==
    cy.pc = "return" =>
        \A j \in DOMAIN cy.satellites_data :
            geopoint[cy.satellites_data[j].norad_id[2]]
               = [x |-> cy.satellites_data[j].longitude, y |-> cy.satellites_data[j].latitude]

\* C23 amended: the points change only by the batch of a cycle and only in place:
\* when the batch executes, the point of every object with a result in that cycle
\* becomes that cycle's (longitude, latitude); the point of any other object, and
\* every point when the batch fails or is not attempted, stays as it is; no point
\* is removed or added.
C23_SpatialUpdateInPlace ==
    [][LET data == cy.satellites_data
           batch == cy.pc = "postgis" /\ obs'.geo_writes = obs.geo_writes + 1
       IN /\ DOMAIN geopoint' = DOMAIN geopoint
          /\ \A s \in Sats : geopoint[s] # None => geopoint'[s] # None
          /\ \A s \in Sats :
                geopoint'[s] # geopoint[s] =>
                   /\ batch
                   /\ s \in obs.succeeded
                   /\ \E j \in DOMAIN data : data[j].norad_id = NoradOf(s)
          /\ batch =>
                \A j \in DOMAIN data :
                    geopoint'[data[j].norad_id[2]]
                       = [x |-> data[j].longitude, y |-> data[j].latitude]
      ]_vars

\* A batch has set the point of the object that succeeded and left the point of
\* the candidate that failed as it was.
C23_Witness ==
    /\ cy.pc = "publish" /\ obs.geo_writes = 1
    /\ Len(cy.satellites) = 2 /\ Len(cy.satellites_data) = 1
    /\ \E s \in obs.succeeded : geopoint[s] # None
    /\ \E s \in Sats \ obs.succeeded : geopoint[s] = None

\* ------------------------------------------------ the worker being shut down

\* Lines 198-199: asyncio.run(main()) cancels main when the process is
\* interrupted.  The CancelledError or KeyboardInterrupt raised at the point where
\* the cycle is suspended is not an Exception, the handler of line 172 does not
\* catch it, and nothing else runs: there is no finally clause.
Shutdown ==
    /\ main_pc \in LoopStates
    /\ main_pc' = "stopped"
    /\ running' = 0
    /\ cy' = IF cy.pc = "idle" THEN cy ELSE [cy EXCEPT !.pc = "cancelled"]
    /\ UNCHANGED <<now, tles, geopoint, cache, worker_redis_client, api_redis_client,
                   wake_at, obs, api>>

ShutdownNext ==
    \/ WorkerNext
    \/ Shutdown

ShutdownSpec == Init /\ [][ShutdownNext]_vars

\* C24: after a cycle has been cancelled at any point, the snapshot key holds what
\* it held when the cycle began, or the whole snapshot of the cancelled cycle: the
\* payload built from the results of all its candidates.
C24_ShutdownSafety ==
    cy.pc = "cancelled" =>
        \/ cache[CACHE_KEY] = ExpireEntry(obs.key_before, now)
        \/ /\ obs.published
           /\ obs.dispatched = Len(cy.satellites)
           /\ cache[CACHE_KEY].val = SnapshotPayload(cy.satellites_data)
           /\ PayloadIds(cy.satellites_data) = {NoradOf(s) : s \in obs.succeeded}
           /\ Len(cy.satellites_data) + Len(CalcErrors) = Len(cy.satellites)

\* A cycle was cancelled when one of its two candidates had been computed, and the
\* snapshot found at its start is still under the key.
C24_Witness ==
    /\ cy.pc = "cancelled" /\ main_pc = "stopped"
    /\ Len(cy.satellites) = 2 /\ obs.dispatched = 1 /\ Len(cy.satellites_data) = 1
    /\ obs.key_before = LeftoverSnapshot /\ cache[CACHE_KEY] = LeftoverSnapshot

\* C25: when a cycle publishes and the cycle before it published too, the snapshot
\* of the earlier one is still under the key at the moment it is replaced, so that
\* a request at any time between the two writes is a hit.  (The write before this
\* one was the previous cycle's when it is less than T older than that cycle's return.)
C25_NoGapBetweenSnapshots ==
    [][(/\ cy.pc = "publish" /\ obs'.published
        /\ obs.prev_outcome = "ok" /\ obs.ever_published
        /\ obs.prev_returned_at - obs.last_publish < T)
       => (RedisGet(cache, CACHE_KEY, now) # None)]_vars

\* C26: a cycle whose query succeeded and that has no successful result attempts
\* neither the batch nor the cache write, leaves the snapshot key as it found it
\* (value and expiry), changes no point, and returns without passing through the
\* error handler.
C26_EmptyCycleWritesNothing ==
    (running = 1 /\ cy.pc \in {"publish", "except", "return"}
     /\ ~obs.fetch_failed /\ obs.succeeded = {}) =>
        /\ obs.geo_attempts = 0 /\ obs.geo_writes = 0
        /\ obs.cache_attempts = 0 /\ ~obs.published
        /\ cache[CACHE_KEY] = ExpireEntry(obs.key_before, now)
        /\ cy.pc # "except"
        /\ \A k \in DOMAIN obs.log : obs.log[k].msg # "WORKER Error in main cycle"

\* The only candidate failed while the key held a snapshot, which is still there
\* when the cycle returns.
C26_Witness ==
    /\ cy.pc = "return" /\ ~obs.fetch_failed
    /\ Len(cy.satellites) = 1 /\ obs.dispatched = 1 /\ obs.succeeded = {}
    /\ obs.key_before = LeftoverSnapshot /\ cache[CACHE_KEY] = LeftoverSnapshot

\* C27: at every point of a cycle the cache payload list and the batch argument
\* list hold the same objects: entry j of one and tuple j of the other are of the
\* same object, with the same longitude and latitude.
C27_PayloadMatchesBatch ==
    /\ Len(cy.postgis_update_args) = Len(cy.satellites_data)
    /\ \A j \in DOMAIN cy.satellites_data :
          cy.postgis_update_args[j]
             = <<cy.satellites_data[j].longitude, cy.satellites_data[j].latitude,
                 cy.satellites_data[j].norad_id[2]>>
    /\ {cy.postgis_update_args[j][3] : j \in DOMAIN cy.postgis_update_args}
          = (IF running = 1 THEN obs.succeeded ELSE {})

\* Of two candidates one failed: each list has the one object that succeeded.
C27_Witness ==
    /\ cy.pc = "postgis" /\ Len(cy.satellites) = 2
    /\ Len(cy.satellites_data) = 1 /\ Len(cy.postgis_update_args) = 1
    /\ Len(CalcErrors) = 1

\* C28: no step of a request changes the snapshot key, neither its value nor its
\* expiry; what a recomputation stores goes under the other key.
C28_ApiNeverWritesSnapshotKey ==
    [][(api' # api) =>
          /\ cache'[CACHE_KEY] = cache[CACHE_KEY]
          /\ \A k \in Keys : cache'[k] # cache[k] => k = LIVE_CACHE_KEY
      ]_vars

\* A recomputed result has been stored under the other key while the snapshot key
\* holds the worker's snapshot.
C28_Witness ==
    /\ api.pc = "done" /\ api.recomputed
    /\ cache[LIVE_CACHE_KEY] # Absent
    /\ cache[CACHE_KEY] # Absent /\ obs.published

\* C29: when a request has been answered, no store connection it opened is still open.
C29_ConnectionReleased == api.pc = "done" => ~api.conn_open

\* C30: main runs no cycle when the pool cannot be created or there is no Redis
\* client: a worker that has returned at start-up has run no cycle, every cycle
\* that runs has a client, and a cycle that reaches the cache write with a result
\* attempts it.
C30_StartupGating ==
    /\ main_pc = "exited" => (obs.n = 0 /\ running = 0 /\ cy.pc = "idle")
    /\ ~worker_redis_client => (main_pc \in {"create_pool", "check_redis", "exited"}
                                /\ obs.n = 0)
    /\ (obs.n >= 1 \/ running = 1) => worker_redis_client
    /\ (cy.pc = "return" /\ cy.satellites_data # <<>> /\ ~obs.geo_failed) =>
          obs.cache_attempts = 1

\* The pool was created, there is no Redis client, and main has returned without
\* running a cycle.
C30_Witness ==
    /\ main_pc = "exited" /\ ~worker_redis_client /\ obs.n = 0
    /\ tles # {}

====
